---- MODULE Spec2Model ----
(***************************************************************************)
(* StakingCard (apps/wallet/src/ui/app/staking/stake/StakingCard.tsx):     *)
(* the stake / unstake form of the wallet.  The model covers the submit    *)
(* button, Formik's submit cycle around onHandleSubmit, the two mutations  *)
(* (stakeToken, unStakeToken), the signer and the broadcast as external    *)
(* asynchronous steps, and the effects the handler emits (cache            *)
(* invalidation, form reset, navigation, error toast).                     *)
(*                                                                         *)
(* Every call of onHandleSubmit is one "attempt" with its own closure      *)
(* (the values of the render it was created in) and its own log of the     *)
(* calls it made, so that several attempts may be in flight together if    *)
(* the code lets them.                                                     *)
(***************************************************************************)
EXTENDS Integers, Sequences, FiniteSets

\* ------------------------------------------------------------------ bounds
\* Number of onHandleSubmit invocations followed in one behaviour.
MaxSubmits == 2

\* ------------------------------------------------------------------ values
NULL == "null"

\* Display precision of the coin (useCoinDecimals); SUI has 9, scaled down.
coinDecimals == 1

RECURSIVE Pow10(_)
Pow10(n) == IF n = 0 THEN 1 ELSE 10 * Pow10(n - 1)

\* One whole coin in smallest units.
Unit == Pow10(coinDecimals)

\* Form input: a string, as the tuple of its characters.
FormAmounts ==
    { <<>>, <<"0">>, <<"0", ".", "5">>, <<"1">>, <<"2">> }

\* Wallet balance snapshots, in smallest units.
Balances == { 0, Unit, 2 * Unit }

StakeIds == { "S1" }
Statuses == { "Missing", "Pending", "Active" }
Validators == { "0xV" }
Digests == { "d1", "d2" }
\* Messages of the errors the signer or the broadcast reject with; "" is an
\* error without a message.
ErrorMessages == { "rejected", "" }
QueryKeys == { <<"system", "state">>, <<"validator">> }

SUI_TYPE_ARG == "0x2::sui::SUI"
coinType == SUI_TYPE_ARG

initialValues == [amount |-> <<>>]

\* ------------------------------------------------------------------ state
VARIABLES
    validatorAddress,   \* searchParams.get('address'): a validator or NULL
    stakeSuiIdParams,   \* searchParams.get('staked'): a stake id or NULL
    systemMissing,      \* useSystemState() has ended without data
    unstake,            \* searchParams.get('unstake') === 'true'
    coinBalance,        \* wallet balance snapshot
    allDelegation,      \* delegation snapshot: [loaded, stakes]
    signer,             \* useSigner(): TRUE when a signer factory is there
    values,             \* Formik values: [amount]
    isSubmitting,       \* Formik isSubmitting
    mounted,            \* the form is rendered
    attempts,           \* attempt id -> record of one onHandleSubmit call
    nAttempts,          \* number of onHandleSubmit calls so far
    invalidation        \* query key -> state of its invalidateQueries promise

vars == << validatorAddress, stakeSuiIdParams, systemMissing, unstake, coinBalance,
           allDelegation, signer, values, isSubmitting, mounted,
           attempts, nAttempts, invalidation >>

params == << validatorAddress, stakeSuiIdParams, systemMissing, unstake >>

AttemptIds == 1 .. MaxSubmits

\* ------------------------------------------------------- amount conversion
Digits == { "0", "1", "2", "3", "4", "5", "6", "7", "8", "9" }

DigitVal(c) ==
    CASE c = "0" -> 0 [] c = "1" -> 1 [] c = "2" -> 2 [] c = "3" -> 3
      [] c = "4" -> 4 [] c = "5" -> 5 [] c = "6" -> 6 [] c = "7" -> 7
      [] c = "8" -> 8 [] c = "9" -> 9

RECURSIVE ToNat(_)
ToNat(s) ==
    IF Len(s) = 0 THEN 0
    ELSE 10 * ToNat(SubSeq(s, 1, Len(s) - 1)) + DigitVal(s[Len(s)])

DotsOf(s) == { i \in 1 .. Len(s) : s[i] = "." }

\* A non-negative decimal numeral: digits with at most one point.
IsDecimal(s) ==
    /\ \A i \in 1 .. Len(s) : s[i] \in Digits \cup {"."}
    /\ Cardinality(DotsOf(s)) <= 1
    /\ \E i \in 1 .. Len(s) : s[i] \in Digits

WholePart(s) ==
    IF DotsOf(s) = {} THEN s
    ELSE SubSeq(s, 1, (CHOOSE i \in DotsOf(s) : TRUE) - 1)

FracPart(s) ==
    IF DotsOf(s) = {} THEN <<>>
    ELSE SubSeq(s, (CHOOSE i \in DotsOf(s) : TRUE) + 1, Len(s))

\* The fractional digits cut or padded with zeros to d digits.
FracTo(f, d) == [i \in 1 .. d |-> IF i <= Len(f) THEN f[i] ELSE "0"]

\* parseAmount(amount, decimals): the amount in smallest units; input that
\* is no numeral converts to 0, it never throws.
parseAmount(amount, decimals) ==
    IF ~IsDecimal(amount) THEN 0
    ELSE ToNat(WholePart(amount)) * Pow10(decimals)
         + ToNat(FracTo(FracPart(amount), decimals))

\* ---------------------------------------------------------- render values
NoStake == [stakedSuiId |-> NULL, status |-> "Missing"]

\* getDelegationDataByStakeId(allDelegation, stakeId): the position with
\* that id in the snapshot, or none.
getDelegationDataByStakeId(delegation, stakeId) ==
    IF stakeId \in StakeIds /\ delegation.stakes[stakeId] # "Missing"
    THEN [stakedSuiId |-> stakeId, status |-> delegation.stakes[stakeId]]
    ELSE NoStake

stakeData ==
    IF ~allDelegation.loaded \/ stakeSuiIdParams = NULL THEN NoStake
    ELSE getDelegationDataByStakeId(allDelegation, stakeSuiIdParams)

\* set minimum stake amount to 1 SUI
minimumStake == parseAmount(<<"1">>, coinDecimals)

\* createValidationSchema(coinBalance, coinSymbol, coinDecimals, unstake,
\* minimumStake): the rule set; the symbol only words the messages.
createValidationSchema(balance, decimals, isUnstake, minStake) ==
    [balance |-> balance, decimals |-> decimals, isUnstake |-> isUnstake,
     minimumStake |-> minStake]

\* The rules of a schema on one input, in order, first failure wins.
Validate(schema, amount) ==
    IF ~IsDecimal(amount) \/ Len(FracPart(amount)) > schema.decimals
    THEN "MalformedAmount"
    ELSE IF parseAmount(amount, schema.decimals) <= 0
    THEN "AmountRequired"
    ELSE IF schema.isUnstake
    THEN "OK"
    ELSE IF parseAmount(amount, schema.decimals) > schema.balance
    THEN "InsufficientBalance"
    ELSE IF parseAmount(amount, schema.decimals) < schema.minimumStake
    THEN "BelowMinimum"
    ELSE "OK"

\* The schema built with the mode flag fixed, whatever the mode is.
validationSchemaUnstakeRules ==
    createValidationSchema(coinBalance, coinDecimals, TRUE, minimumStake)

validationSchemaStakeRules ==
    createValidationSchema(coinBalance, coinDecimals, FALSE, minimumStake)

validationSchema ==
    createValidationSchema(coinBalance, coinDecimals, unstake, minimumStake)

\* Formik's isValid: the schema finds no error in the values.
isValid == Validate(validationSchema, values.amount) = "OK"

\* delegationId without the status test.
delegationIdAnyStatus ==
    IF stakeData = NoStake THEN NULL ELSE stakeData.stakedSuiId

delegationId ==
    IF stakeData = NoStake \/ stakeData.status = "Pending" THEN NULL
    ELSE stakeData.stakedSuiId

\* The render that redirects only for a missing system state.
RedirectOnlyForSystem == systemMissing

\* if (!coinType || !validatorAddress || (!validatorsIsloading && !system))
\*     return <Navigate to="/" replace={true} />;
RedirectToDefault ==
    coinType = NULL \/ validatorAddress = NULL \/ systemMissing

\* The button without its isSubmitting term.
SubmitDisabledNoSubmitting ==
    ~isValid \/ (unstake /\ delegationId = NULL)

\* disabled= of the submit button.
SubmitDisabled ==
    ~isValid \/ isSubmitting \/ (unstake /\ delegationId = NULL)

\* ---------------------------------------------------------------- attempts
NoTx == [kind |-> "none", amount |-> 0, validator |-> NULL, stakedSuiId |-> NULL]

\* One call made by an attempt, as an entry of its log.
Event(op, arg) == [op |-> op, arg |-> arg]

NoResponse == [digest |-> NULL]

\* phase, outcome: where the call is.  unstake, validator, stakedSuiId,
\* signer: the values its closure holds.  stakeData: the position its
\* closure holds, as far as it is read (in unstake mode).  amount: the amount
\* handed to stakeToken (0 in unstake mode, where none is handed over).
\* tx: the transaction built.  err: the message of the error caught.
\* response: what signAndExecuteTransaction returned.  log: the calls made.
IdleAttempt ==
    [phase |-> "Idle", outcome |-> "None", unstake |-> FALSE,
     validator |-> NULL, stakedSuiId |-> NULL, stakeData |-> NoStake,
     signer |-> FALSE, amount |-> 0,
     tx |-> NoTx, err |-> NULL, response |-> NoResponse, log |-> <<>>]

\* The calls of one kind in a log.
Calls(log, op) == { k \in 1 .. Len(log) : log[k].op = op }
Count(log, op) == Cardinality(Calls(log, op))

InFlight(a) == a.phase \in { "Building", "AwaitingSigner", "Broadcasting" }
Settled(a) == a.phase = "Settled"

\* createStakeTransaction(amount, validatorAddress)
createStakeTransaction(amount, validator) ==
    IF amount <= 0 THEN NoTx
    ELSE [kind |-> "stake", amount |-> amount, validator |-> validator,
          stakedSuiId |-> NULL]

\* createUnstakeTransaction(stakedSuiId)
createUnstakeTransaction(stakedSuiId) ==
    IF stakedSuiId \in { NULL, "" } THEN NoTx
    ELSE [kind |-> "unstake", amount |-> 0, validator |-> NULL,
          stakedSuiId |-> stakedSuiId]

\* A catch block that also resets the form.
CatchResetting(a, message) ==
    [a EXCEPT !.phase = "Settled", !.outcome = "Failure", !.err = message,
              !.log = @ \o
                << Event("toast",
                       [title |-> IF a.unstake THEN "Unstake failed"
                                  ELSE "Stake failed",
                        msg |-> IF message = "" THEN NULL ELSE message]),
                   Event("resetForm", <<>>) >>]

\* A catch block that shows nothing.
CatchSilent(a, message) ==
    [a EXCEPT !.phase = "Settled", !.outcome = "Failure", !.err = message]

\* A catch block that starts the mutation once more before it gives up.
CatchRetry(a, message) ==
    IF a.phase \in { "AwaitingSigner", "Broadcasting" }
       /\ Count(a.log, "signer") < 2
    THEN [a EXCEPT !.phase = "Building"]
    ELSE [a EXCEPT !.phase = "Settled", !.outcome = "Failure", !.err = message,
                   !.log = Append(@,
                       Event("toast",
                           [title |-> IF a.unstake THEN "Unstake failed"
                                      ELSE "Stake failed",
                            msg |-> IF message = "" THEN NULL ELSE message]))]

\* A catch block that also marks the caches stale.
CatchInvalidating(a, message) ==
    [a EXCEPT !.phase = "Settled", !.outcome = "Failure", !.err = message,
              !.log = @ \o
                << Event("toast",
                       [title |-> IF a.unstake THEN "Unstake failed"
                                  ELSE "Stake failed",
                        msg |-> IF message = "" THEN NULL ELSE message]),
                   Event("invalidateQueries", <<"system", "state">>),
                   Event("invalidateQueries", <<"validator">>) >>]

\* catch (e) { toast.error(<strong>{unstake ? 'Unstake' : 'Stake'} failed
\* </strong> {msg ? <small>{msg}</small> : null}) }
Catch(a, message) ==
    [a EXCEPT !.phase = "Settled", !.outcome = "Failure", !.err = message,
              !.log = Append(@,
                  Event("toast",
                      [title |-> IF a.unstake THEN "Unstake failed"
                                 ELSE "Stake failed",
                       msg |-> IF message = "" THEN NULL ELSE message]))]

\* The silent return of the handler.
Return(a) == [a EXCEPT !.phase = "Settled", !.outcome = "Returned"]

\* The guard of stakeToken.mutationFn without its signer test.
stakeTokenGuardNoSigner(a) ==
    IF a.validator = NULL \/ a.amount = 0 \/ coinType = NULL
    THEN Catch(a, "Failed, missing required field")
    ELSE [a EXCEPT !.phase = "Building"]

\* The guard of stakeToken.mutationFn without its amount test.
stakeTokenGuardNoAmount(a) ==
    IF a.validator = NULL \/ coinType = NULL \/ ~a.signer
    THEN Catch(a, "Failed, missing required field")
    ELSE [a EXCEPT !.phase = "Building"]

\* stakeToken.mutationFn up to its guard:
\* if (!validatorAddress || !amount || !tokenTypeArg || !signer) throw
stakeTokenGuard(a) ==
    IF a.validator = NULL \/ a.amount = 0 \/ coinType = NULL \/ ~a.signer
    THEN Catch(a, "Failed, missing required field")
    ELSE [a EXCEPT !.phase = "Building"]

\* unStakeToken.mutationFn up to its guard:
\* if (!stakedSuiId || !signer) throw
unStakeTokenGuard(a) ==
    IF a.stakedSuiId \in { NULL, "" } \/ ~a.signer
    THEN Catch(a, "Failed, missing required field.")
    ELSE [a EXCEPT !.phase = "Building"]

\* A guard whose status test is the wrong way round.
UnstakeGuardReturnsUnlessPending ==
    stakeData = NoStake \/ stakeSuiIdParams = NULL \/ stakeData.status # "Pending"

\* The handler's own guard in unstake mode ("check for delegation data").
UnstakeGuardReturns ==
    stakeData = NoStake \/ stakeSuiIdParams = NULL \/ stakeData.status = "Pending"

\* A handler that hands the form amount over without scaling it.
onHandleSubmitUnscaled(vals) ==
    LET bigIntAmount == parseAmount(vals.amount, 0)
        a == [IdleAttempt EXCEPT !.unstake = unstake,
                                 !.validator = validatorAddress,
                                 !.stakedSuiId = stakeSuiIdParams,
                                 !.stakeData = IF unstake THEN stakeData
                                               ELSE NoStake,
                                 !.signer = signer]
    IN  IF coinType = NULL \/ validatorAddress = NULL THEN Return(a)
        ELSE IF unstake
        THEN IF UnstakeGuardReturns THEN Return(a)
             ELSE unStakeTokenGuard(a)
        ELSE stakeTokenGuard([a EXCEPT !.amount = bigIntAmount])

\* onHandleSubmit({ amount }, { resetForm }) from its call to the first
\* await inside the mutation: the closure values are read here.
onHandleSubmit(vals) ==
    LET bigIntAmount == parseAmount(vals.amount, coinDecimals)
        a == [IdleAttempt EXCEPT !.unstake = unstake,
                                 !.validator = validatorAddress,
                                 !.stakedSuiId = stakeSuiIdParams,
                                 !.stakeData = IF unstake THEN stakeData
                                               ELSE NoStake,
                                 !.signer = signer]
    IN  IF coinType = NULL \/ validatorAddress = NULL THEN Return(a)
        ELSE IF unstake
        THEN IF UnstakeGuardReturns THEN Return(a)
             ELSE unStakeTokenGuard(a)
        ELSE stakeTokenGuard([a EXCEPT !.amount = bigIntAmount])

\* A handler whose promise Formik never sees settle.
IsSubmittingStuck(a) == TRUE

\* Formik's isSubmitting once onSubmit has been called: true until the
\* promise the handler returned has settled.
IsSubmittingAfter(a) == ~Settled(a)

\* ------------------------------------------------------------------ Init
Init ==
    /\ validatorAddress \in Validators \cup { NULL }
    /\ stakeSuiIdParams \in StakeIds \cup { NULL }
    /\ systemMissing \in BOOLEAN
    /\ unstake \in BOOLEAN
    /\ coinBalance \in Balances
    /\ allDelegation \in
          { [loaded |-> FALSE, stakes |-> [s \in StakeIds |-> "Missing"]] }
          \cup [loaded : { TRUE }, stakes : [StakeIds -> Statuses]]
    /\ signer \in BOOLEAN
    /\ values = initialValues
    /\ isSubmitting = FALSE
    /\ mounted = ~RedirectToDefault
    /\ attempts = [i \in AttemptIds |-> IdleAttempt]
    /\ nAttempts = 0
    /\ invalidation = [key \in QueryKeys |-> "none"]

\* --------------------------------------------------------------- actions
\* The operator clicks the submit button: Formik's submitForm validates the
\* values and calls onSubmit when they are valid.
SubmitForm ==
    /\ mounted
    /\ ~SubmitDisabled
    /\ nAttempts < MaxSubmits
    /\ IF Validate(validationSchema, values.amount) # "OK"
       THEN UNCHANGED << attempts, nAttempts, isSubmitting >>
       ELSE LET a == onHandleSubmit(values) IN
            /\ attempts' = [attempts EXCEPT ![nAttempts + 1] = a]
            /\ nAttempts' = nAttempts + 1
            /\ isSubmitting' = IsSubmittingAfter(a)
    /\ UNCHANGED << params, coinBalance, allDelegation, signer, values, mounted,
                    invalidation >>

\* A mutation that asks the signer factory before it builds.
BuildSignerFirst(i) ==
    /\ attempts[i].phase = "Building"
    /\ LET a == attempts[i]
           tx == IF a.unstake THEN createUnstakeTransaction(a.stakedSuiId)
                 ELSE createStakeTransaction(a.amount, a.validator)
           b == IF tx = NoTx
                THEN Catch([a EXCEPT !.log = Append(@, Event("signer", <<>>))],
                           "InvalidInput")
                ELSE [a EXCEPT !.phase = "AwaitingSigner", !.tx = tx,
                        !.log = @ \o << Event("signer", <<>>),
                                        Event("createTransaction", tx) >>]
       IN /\ attempts' = [attempts EXCEPT ![i] = b]
          /\ isSubmitting' = IF Settled(b) THEN IsSubmittingAfter(b) ELSE isSubmitting
    /\ UNCHANGED << params, coinBalance, allDelegation, signer, values, mounted,
                    nAttempts,
                    invalidation >>

\* The mutation builds the transaction and asks the signer factory.
Build(i) ==
    /\ attempts[i].phase = "Building"
    /\ LET a == attempts[i]
           tx == IF a.unstake THEN createUnstakeTransaction(a.stakedSuiId)
                 ELSE createStakeTransaction(a.amount, a.validator)
           b == IF tx = NoTx THEN Catch(a, "InvalidInput")
                ELSE [a EXCEPT !.phase = "AwaitingSigner", !.tx = tx,
                        !.log = @ \o << Event("createTransaction", tx),
                                        Event("signer", <<>>) >>]
       IN /\ attempts' = [attempts EXCEPT ![i] = b]
          /\ isSubmitting' = IF Settled(b) THEN IsSubmittingAfter(b) ELSE isSubmitting
    /\ UNCHANGED << params, coinBalance, allDelegation, signer, values, mounted,
                    nAttempts,
                    invalidation >>

\* await signer() resolves: signAndExecuteTransaction is called.
SignerResolves(i) ==
    /\ attempts[i].phase = "AwaitingSigner"
    /\ attempts' = [attempts EXCEPT ![i] =
          [@ EXCEPT !.phase = "Broadcasting",
                    !.log = Append(@,
                        Event("signAndExecuteTransaction",
                            [transaction |-> attempts[i].tx,
                             options |-> { "showInput", "showEffects",
                                           "showEvents" }]))]]
    /\ UNCHANGED << params, coinBalance, allDelegation, signer, values,
                    isSubmitting, mounted, nAttempts,
                    invalidation >>

\* await signer() rejects.
SignerRejects(i, message) ==
    /\ attempts[i].phase = "AwaitingSigner"
    /\ attempts' = [attempts EXCEPT ![i] = Catch(@, message)]
    /\ isSubmitting' = IsSubmittingAfter(attempts'[i])
    /\ UNCHANGED << params, coinBalance, allDelegation, signer, values, mounted,
                    nAttempts,
                    invalidation >>

\* signAndExecuteTransaction rejects.
BroadcastFails(i, message) ==
    /\ attempts[i].phase = "Broadcasting"
    /\ attempts' = [attempts EXCEPT ![i] = Catch(@, message)]
    /\ isSubmitting' = IsSubmittingAfter(attempts'[i])
    /\ UNCHANGED << params, coinBalance, allDelegation, signer, values, mounted,
                    nAttempts,
                    invalidation >>

\* getTransactionDigest(response)
getTransactionDigest(response) == response.digest

\* A reconciliation that resets and navigates before it invalidates.
ReconcileResetFirst(a) ==
    [a EXCEPT !.phase = "Settled", !.outcome = "Success",
              !.log = @ \o
                << Event("resetForm", <<>>),
                   Event("navigate",
                       [path |-> "/receipt",
                        txdigest |-> getTransactionDigest(a.response),
                        from |-> "stake"]),
                   Event("invalidateQueries", <<"system", "state">>),
                   Event("invalidateQueries", <<"validator">>) >>]

\* A reconciliation that names the mode in the from parameter.
ReconcileFromMode(a) ==
    [a EXCEPT !.phase = "Settled", !.outcome = "Success",
              !.log = @ \o
                << Event("invalidateQueries", <<"system", "state">>),
                   Event("invalidateQueries", <<"validator">>),
                   Event("resetForm", <<>>),
                   Event("navigate",
                       [path |-> "/receipt",
                        txdigest |-> getTransactionDigest(a.response),
                        from |-> IF a.unstake THEN "unstake" ELSE "stake"]) >>]

\* The calls after the mutation has returned its response:
\* Promise.all([invalidateQueries x 2]); resetForm(); navigate(...)
Reconcile(a) ==
    [a EXCEPT !.phase = "Settled", !.outcome = "Success",
              !.log = @ \o
                << Event("invalidateQueries", <<"system", "state">>),
                   Event("invalidateQueries", <<"validator">>),
                   Event("resetForm", <<>>),
                   Event("navigate",
                       [path |-> "/receipt",
                        txdigest |-> getTransactionDigest(a.response),
                        from |-> "stake"]) >>]

\* signAndExecuteTransaction returns a response with its digest.
BroadcastSucceeds(i, digest) ==
    /\ attempts[i].phase = "Broadcasting"
    /\ attempts' = [attempts EXCEPT ![i] =
                        Reconcile([@ EXCEPT !.response = [digest |-> digest]])]
    /\ values' = IF Count(attempts'[i].log, "resetForm") > 0 THEN initialValues
                 ELSE values
    /\ mounted' = IF Count(attempts'[i].log, "navigate") > 0 THEN FALSE
                  ELSE mounted
    /\ isSubmitting' = IsSubmittingAfter(attempts'[i])
    /\ invalidation' =
           [key \in QueryKeys |->
               IF \E k \in Calls(attempts'[i].log, "invalidateQueries") :
                      attempts'[i].log[k].arg = key
               THEN "pending" ELSE invalidation[key]]
    /\ UNCHANGED << params, coinBalance, allDelegation, signer, nAttempts >>

\* The hooks deliver new snapshots while the form is rendered.
RefreshBalance(b) ==
    /\ mounted
    /\ b # coinBalance
    /\ coinBalance' = b
    /\ UNCHANGED << params, allDelegation, signer, values, isSubmitting, mounted,
                    attempts, nAttempts,
                    invalidation >>

RefreshDelegation(d) ==
    /\ mounted
    /\ d # allDelegation
    /\ allDelegation' = d
    /\ UNCHANGED << params, coinBalance, signer, values, isSubmitting, mounted,
                    attempts, nAttempts,
                    invalidation >>

SignerChanges ==
    /\ mounted
    /\ signer' = ~signer
    /\ UNCHANGED << params, coinBalance, allDelegation, values, isSubmitting,
                    mounted, attempts, nAttempts,
                    invalidation >>

\* The operator (stake form) or the unstake form sets the amount field.
ChangeAmount(amount) ==
    /\ mounted
    /\ amount # values.amount
    /\ values' = [values EXCEPT !.amount = amount]
    /\ UNCHANGED << params, coinBalance, allDelegation, signer, isSubmitting,
                    mounted, attempts, nAttempts,
                    invalidation >>

\* Leaving the view with an abort of whatever is in flight.
UnmountAborting ==
    /\ mounted
    /\ mounted' = FALSE
    /\ attempts' = [i \in AttemptIds |->
                       IF InFlight(attempts[i])
                       THEN Catch(attempts[i], "aborted") ELSE attempts[i]]
    /\ isSubmitting' = FALSE
    /\ UNCHANGED << params, coinBalance, allDelegation, signer, values,
                    nAttempts, invalidation >>

\* The operator leaves the view; attempts in flight go on.
Unmount ==
    /\ mounted
    /\ mounted' = FALSE
    /\ UNCHANGED << params, coinBalance, allDelegation, signer, values,
                    isSubmitting, attempts, nAttempts,
                    invalidation >>

\* The promise of one invalidateQueries call settles: the queries of the key
\* were marked stale and refetched, or the refetch failed.  Nobody awaits it.
InvalidationSettles(key, result) ==
    /\ invalidation[key] = "pending"
    /\ invalidation' = [invalidation EXCEPT ![key] = result]
    /\ UNCHANGED << params, coinBalance, allDelegation, signer, values,
                    isSubmitting, mounted, attempts, nAttempts >>

Next ==
    \/ SubmitForm
    \/ \E i \in AttemptIds : Build(i)
    \/ \E i \in AttemptIds : SignerResolves(i)
    \/ \E i \in AttemptIds, m \in ErrorMessages : SignerRejects(i, m)
    \/ \E i \in AttemptIds, m \in ErrorMessages : BroadcastFails(i, m)
    \/ \E i \in AttemptIds, d \in Digests : BroadcastSucceeds(i, d)
    \/ \E b \in Balances : RefreshBalance(b)
    \/ \E d \in [loaded : { TRUE }, stakes : [StakeIds -> Statuses]] :
           RefreshDelegation(d)
    \/ SignerChanges
    \/ \E amount \in FormAmounts : ChangeAmount(amount)
    \/ Unmount
    \/ \E key \in QueryKeys, result \in { "done", "failed" } :
           InvalidationSettles(key, result)

Spec == Init /\ [][Next]_vars

\* What the platform guarantees about the promises the handler leaves behind:
\* the microtask queue runs a started mutation on, the signer and the network
\* answer every call, and the query client, which outlives the view, settles
\* every invalidation it was asked for.
Fairness ==
    /\ \A key \in QueryKeys :
           WF_vars(\E result \in { "done", "failed" } :
                      InvalidationSettles(key, result))
    /\ \A i \in AttemptIds : WF_vars(Build(i))
    /\ \A i \in AttemptIds :
           WF_vars(SignerResolves(i)
                      \/ \E m \in ErrorMessages : SignerRejects(i, m))
    /\ \A i \in AttemptIds :
           WF_vars((\E d \in Digests : BroadcastSucceeds(i, d))
                      \/ \E m \in ErrorMessages : BroadcastFails(i, m))

SpecLive == Spec /\ Fairness

\* ------------------------------------------------------------ properties
Started(a) == a.phase # "Idle"
Attempt(i) == attempts[i]

\* The entries of a log with a given operation, in order.
Args(log, op) == [k \in Calls(log, op) |-> log[k].arg]

\* C1: single-flight.  At most one attempt of the form is between its start
\* and its settling at any time, so at most one signAndExecuteTransaction
\* call is in flight; and while one is, the submit button is disabled, so a
\* second submit is ignored.
C1_SingleFlight ==
    /\ Cardinality({ i \in AttemptIds : InFlight(Attempt(i)) }) <= 1
    /\ Cardinality({ i \in AttemptIds : Attempt(i).phase = "Broadcasting" }) <= 1
    /\ (mounted /\ \E i \in AttemptIds : InFlight(Attempt(i))) => SubmitDisabled

\* A broadcast is in flight while the form is shown and would otherwise be
\* submittable: only isSubmitting keeps the second submit out.
C1_Witness ==
    /\ mounted
    /\ \E i \in AttemptIds : Attempt(i).phase = "Broadcasting"
    /\ isValid
    /\ ~(unstake /\ delegationId = NULL)
    /\ nAttempts < MaxSubmits

\* C2: an attempt has invalidated a cache key or navigated only if its
\* signAndExecuteTransaction call was made before and returned a response;
\* an attempt that failed or returned early has done neither.
C2_ReconcileOnlyAfterSuccess ==
    \A i \in AttemptIds :
        LET a == Attempt(i)
            effects == Calls(a.log, "invalidateQueries") \cup Calls(a.log, "navigate")
        IN  /\ effects # {} =>
                /\ a.outcome = "Success"
                /\ a.response # NoResponse
                /\ \E b \in Calls(a.log, "signAndExecuteTransaction") :
                       \A e \in effects : b < e
            /\ a.outcome \in { "Failure", "Returned" } => effects = {}

\* The first attempt failed in its broadcast, the second one succeeded.
C2_Witness ==
    /\ Attempt(1).outcome = "Failure"
    /\ Count(Attempt(1).log, "signAndExecuteTransaction") = 1
    /\ Attempt(2).outcome = "Success"

\* C3: after a successful attempt, in either mode, each of the two cache keys
\* has been invalidated exactly once, the form has been reset exactly once and
\* holds its initial values, and there is exactly one navigation, to /receipt
\* with the digest of this attempt's response and from = "stake".
C3_ReconcileOnSuccess ==
    \A i \in AttemptIds :
        LET a == Attempt(i) IN
        a.outcome = "Success" =>
            /\ \A key \in QueryKeys :
                   Cardinality({ k \in Calls(a.log, "invalidateQueries") :
                                    a.log[k].arg = key }) = 1
            /\ Count(a.log, "invalidateQueries") = Cardinality(QueryKeys)
            /\ Count(a.log, "resetForm") = 1
            /\ values = initialValues
            /\ Count(a.log, "navigate") = 1
            /\ \A k \in Calls(a.log, "navigate") :
                   a.log[k].arg = [path |-> "/receipt",
                                   txdigest |-> a.response.digest,
                                   from |-> "stake"]
            /\ a.response.digest \in Digests

\* An unstake attempt has succeeded.
C3_Witness ==
    \E i \in AttemptIds :
        /\ Attempt(i).outcome = "Success"
        /\ Attempt(i).unstake
        /\ Attempt(i).tx.kind = "unstake"

\* C4: when no attempt is in flight the form is not submitting, so a settled
\* attempt, failed or not, leaves the button to the validation and the
\* position alone and a new submit is accepted.
C4_IdleAfterSettling ==
    /\ (\A i \in AttemptIds : ~InFlight(Attempt(i))) => ~isSubmitting
    /\ (mounted /\ (\A i \in AttemptIds : ~InFlight(Attempt(i)))) =>
           (SubmitDisabled <=> (~isValid \/ (unstake /\ delegationId = NULL)))

\* The signer threw during the broadcast of the first attempt and the second
\* attempt has reached its own broadcast.
C4_Witness ==
    /\ Attempt(1).outcome = "Failure"
    /\ Count(Attempt(1).log, "signAndExecuteTransaction") = 1
    /\ Attempt(2).phase = "Broadcasting"

\* C5: in unstake mode the submit button is disabled whenever the position
\* named by the stake id is missing from the snapshot or Pending, and every
\* unstake attempt that has asked for the signer or broadcast holds a position
\* of that id whose status is Active.
C5_UnstakeOnlyActive ==
    /\ (unstake /\ mounted /\ stakeData.status # "Active") => SubmitDisabled
    /\ \A i \in AttemptIds :
           LET a == Attempt(i) IN
           (a.unstake /\ (Count(a.log, "signer") > 0
                          \/ Count(a.log, "signAndExecuteTransaction") > 0
                          \/ InFlight(a))) =>
               /\ a.stakeData.status = "Active"
               /\ a.stakeData.stakedSuiId = a.stakedSuiId
               /\ a.stakedSuiId \in StakeIds

\* An unstake was broadcast for an Active position; since then the snapshot
\* has lost the position, and the form, valid and idle, is disabled.
C5_Witness ==
    /\ unstake /\ mounted /\ isValid /\ ~isSubmitting
    /\ stakeData = NoStake
    /\ Count(Attempt(1).log, "signAndExecuteTransaction") = 1
    /\ SubmitDisabled

\* C6: every stake attempt that goes on to the signer starts from a form whose
\* amount A, in smallest units, has A > 0, A <= the wallet balance and
\* A >= the minimum stake (one coin) as they are at that submit; and the
\* transaction handed to signAndExecuteTransaction carries this A.
C6_StakeAmountBounds ==
    /\ [][\A i \in AttemptIds :
            (attempts[i].phase = "Idle" /\ InFlight(attempts'[i])
             /\ ~attempts'[i].unstake) =>
                /\ attempts'[i].amount = parseAmount(values.amount, coinDecimals)
                /\ attempts'[i].amount > 0
                /\ attempts'[i].amount <= coinBalance
                /\ attempts'[i].amount >= minimumStake
                /\ minimumStake = Unit]_vars
    /\ [](\A i \in AttemptIds :
            LET a == Attempt(i) IN
            \A k \in Calls(a.log, "signAndExecuteTransaction") :
                ~a.unstake =>
                    /\ a.log[k].arg.transaction.kind = "stake"
                    /\ a.log[k].arg.transaction.amount = a.amount
                    /\ a.amount >= minimumStake)

\* A stake is being broadcast whose amount is more than the balance the
\* snapshot shows by now.
C6_Witness ==
    \E i \in AttemptIds :
        /\ Attempt(i).phase = "Broadcasting"
        /\ ~Attempt(i).unstake
        /\ Attempt(i).amount > coinBalance

\* The fields a mutation needs for its mode are not all there.
MissingFields(a) ==
    IF a.unstake THEN a.stakedSuiId \in { NULL, "" }
    ELSE a.validator = NULL \/ a.amount = 0

\* C7: an attempt whose fields are missing for its mode, or whose closure
\* holds no signer, has settled as a failure in the step that started it, has
\* shown an error, and has built no transaction, not asked for the signer and
\* not broadcast.
C7_PreconditionFailure ==
    \A i \in AttemptIds :
        LET a == Attempt(i) IN
        (Started(a) /\ (MissingFields(a) \/ ~a.signer)) =>
            /\ Settled(a)
            /\ a.outcome = "Failure"
            /\ a.err \in { "Failed, missing required field",
                           "Failed, missing required field." }
            /\ Count(a.log, "toast") = 1
            /\ Count(a.log, "createTransaction") = 0
            /\ Count(a.log, "signer") = 0
            /\ Count(a.log, "signAndExecuteTransaction") = 0

\* A submit without a signer has failed.
C7_Witness ==
    \E i \in AttemptIds :
        /\ Started(Attempt(i))
        /\ ~Attempt(i).signer
        /\ Attempt(i).outcome = "Failure"

\* C8: an attempt that has settled has produced exactly one of the two: a
\* navigation or an error toast.
C8_NoSilentFailure ==
    \A i \in AttemptIds :
        LET a == Attempt(i) IN
        Settled(a) =>
            /\ Count(a.log, "navigate") + Count(a.log, "toast") = 1
            /\ a.outcome # "Returned"

\* One attempt has ended with a toast, the next with a navigation.
C8_Witness ==
    /\ Attempt(1).outcome = "Failure"
    /\ Count(Attempt(1).log, "toast") = 1
    /\ Count(Attempt(1).log, "navigate") = 0
    /\ Attempt(2).outcome = "Success"
    /\ Count(Attempt(2).log, "navigate") = 1
    /\ Count(Attempt(2).log, "toast") = 0

\* C9: one attempt builds, asks for the signer and broadcasts at most once
\* each; a failed attempt has shown exactly one toast, with the message of the
\* error caught (none when the error has none), and no other attempt shows a
\* toast; there are never more broadcasts than submits accepted.
C9_NoRetry ==
    /\ \A i \in AttemptIds :
           LET a == Attempt(i) IN
           /\ Count(a.log, "createTransaction") <= 1
           /\ Count(a.log, "signer") <= 1
           /\ Count(a.log, "signAndExecuteTransaction") <= 1
           /\ a.outcome = "Failure" =>
                  /\ Count(a.log, "toast") = 1
                  /\ a.err # NULL
                  /\ \A k \in Calls(a.log, "toast") :
                         a.log[k].arg.msg = IF a.err = "" THEN NULL ELSE a.err
           /\ a.outcome # "Failure" => Count(a.log, "toast") = 0
           /\ ~Started(a) => a.log = <<>>
    /\ Cardinality({ i \in AttemptIds :
                        Count(Attempt(i).log, "signAndExecuteTransaction") > 0 })
           <= nAttempts

\* A broadcast was rejected with a message, and the message was shown.
C9_Witness ==
    \E i \in AttemptIds :
        /\ Attempt(i).outcome = "Failure"
        /\ Count(Attempt(i).log, "signAndExecuteTransaction") = 1
        /\ Attempt(i).err = "rejected"
        /\ \E k \in Calls(Attempt(i).log, "toast") :
               Attempt(i).log[k].arg.msg = "rejected"

BypassAmounts == { 0 - Unit, 0, Unit }
BypassStakeIds == { "", "S1" }

\* stakeToken.mutateAsync({ amount, tokenTypeArg, validatorAddress }) or
\* unStakeToken.mutateAsync({ stakedSuiId }) inside the handler's try, with
\* variables that no validation has seen.
MutateBypassed(amount, stakedSuiId) ==
    /\ mounted
    /\ ~isSubmitting
    /\ nAttempts < MaxSubmits
    /\ LET a0 == [IdleAttempt EXCEPT !.unstake = unstake,
                                     !.validator = validatorAddress,
                                     !.signer = signer]
           a == IF unstake
                THEN unStakeTokenGuard([a0 EXCEPT !.stakedSuiId = stakedSuiId])
                ELSE stakeTokenGuard([a0 EXCEPT !.amount = amount])
       IN /\ attempts' = [attempts EXCEPT ![nAttempts + 1] = a]
          /\ nAttempts' = nAttempts + 1
          /\ isSubmitting' = IsSubmittingAfter(a)
    /\ UNCHANGED << params, coinBalance, allDelegation, signer, values, mounted,
                    invalidation >>

NextBypass ==
    \/ \E amount \in BypassAmounts, id \in BypassStakeIds :
           MutateBypassed(amount, id)
    \/ \E i \in AttemptIds : Build(i)
    \/ \E i \in AttemptIds : SignerResolves(i)
    \/ \E i \in AttemptIds, m \in ErrorMessages : SignerRejects(i, m)
    \/ \E i \in AttemptIds, m \in ErrorMessages : BroadcastFails(i, m)
    \/ \E i \in AttemptIds, d \in Digests : BroadcastSucceeds(i, d)
    \/ SignerChanges

SpecBypass == Init /\ [][NextBypass]_vars

\* A request the claim wants rejected.
BadRequest(a) ==
    IF a.unstake THEN a.stakedSuiId \in { NULL, "" } ELSE a.amount <= 0

\* C11: a stake request with a zero or negative amount and an unstake request
\* with an empty stake id, handed to the mutations without any validation,
\* never get a transaction built for them, never reach the signer or the
\* broadcast, and end as a failure with an error shown; a zero amount and an
\* empty id are thrown out by the mutation's own guard at once.
C11_BypassRejected ==
    \A i \in AttemptIds :
        LET a == Attempt(i) IN
        (Started(a) /\ BadRequest(a)) =>
            /\ a.phase \in { "Building", "Settled" }
            /\ Count(a.log, "createTransaction") = 0
            /\ Count(a.log, "signer") = 0
            /\ Count(a.log, "signAndExecuteTransaction") = 0
            /\ Count(a.log, "invalidateQueries") = 0
            /\ Count(a.log, "navigate") = 0
            /\ Settled(a) => (a.outcome = "Failure" /\ Count(a.log, "toast") = 1)
            /\ (a.unstake \/ a.amount = 0) => Settled(a)

\* A negative stake amount was turned down when the transaction was to be
\* built, although a signer was there.
C11_Witness ==
    \E i \in AttemptIds :
        /\ ~Attempt(i).unstake
        /\ Attempt(i).amount < 0
        /\ Attempt(i).signer
        /\ Attempt(i).outcome = "Failure"
        /\ Attempt(i).err = "InvalidInput"


\* C12: whenever the coin type or the validator address is absent the
\* component renders the redirect to the default view instead of the form;
\* no submit has started there, and the handler itself, were it called, would
\* return before it builds, asks for the signer or broadcasts.
C12_RoutingError ==
    (coinType = NULL \/ validatorAddress = NULL) =>
        /\ RedirectToDefault
        /\ ~mounted
        /\ nAttempts = 0
        /\ \A i \in AttemptIds : Attempt(i) = IdleAttempt
        /\ onHandleSubmit(values).outcome = "Returned"
        /\ onHandleSubmit(values).log = <<>>

\* The address is absent while the system state and a signer are there.
C12_Witness ==
    /\ validatorAddress = NULL
    /\ ~systemMissing
    /\ signer
    /\ RedirectToDefault
    /\ ~mounted


\* The steps one attempt may take from one phase to the next.
PhaseSteps ==
    { << "Idle", "Building" >>, << "Idle", "Settled" >>,
      << "Building", "AwaitingSigner" >>, << "Building", "Settled" >>,
      << "AwaitingSigner", "Broadcasting" >>, << "AwaitingSigner", "Settled" >>,
      << "Broadcasting", "Settled" >> }

\* The operations of a log, in order.
Ops(log) == [k \in 1 .. Len(log) |-> log[k].op]

\* C13: an attempt goes through Idle, Building, AwaitingSigner, Broadcasting,
\* Settled in this order and enters none twice; a step that leaves the order
\* goes straight to Settled and settles as a failure (or, from Idle, as an
\* early return).  The transaction is built before the signer is asked for,
\* the signer is asked for before signAndExecuteTransaction is called, and a
\* success settles only after signAndExecuteTransaction has returned.
C13_PhaseOrder ==
    /\ [][\A i \in AttemptIds :
            attempts'[i].phase # attempts[i].phase =>
                /\ << attempts[i].phase, attempts'[i].phase >> \in PhaseSteps
                /\ (attempts'[i].phase = "Settled"
                    /\ attempts[i].phase # "Broadcasting") =>
                       attempts'[i].outcome \in { "Failure", "Returned" }
                /\ attempts'[i].outcome = "Returned" => attempts[i].phase = "Idle"
                /\ attempts'[i].outcome = "Success" =>
                       attempts'[i].response # NoResponse]_vars
    /\ [](\A i \in AttemptIds :
            LET a == Attempt(i) IN
            /\ \A b \in Calls(a.log, "createTransaction"),
                  g \in Calls(a.log, "signer") : b < g
            /\ \A g \in Calls(a.log, "signer"),
                  x \in Calls(a.log, "signAndExecuteTransaction") : g < x
            /\ Count(a.log, "signAndExecuteTransaction") > 0 =>
                   (Count(a.log, "createTransaction") = 1
                    /\ Count(a.log, "signer") = 1)
            /\ a.phase \in { "Idle", "Building" } => a.log = <<>>
            /\ a.phase = "AwaitingSigner" =>
                   Ops(a.log) = << "createTransaction", "signer" >>
            /\ a.phase = "Broadcasting" =>
                   Ops(a.log) = << "createTransaction", "signer",
                                   "signAndExecuteTransaction" >>
            /\ a.outcome = "Success" =>
                   SubSeq(Ops(a.log), 1, 3) =
                       << "createTransaction", "signer",
                          "signAndExecuteTransaction" >>)

\* The signer refused the first attempt, which never broadcast; the second
\* attempt went through every phase.
C13_Witness ==
    /\ Attempt(1).outcome = "Failure"
    /\ Ops(Attempt(1).log) = << "createTransaction", "signer", "toast" >>
    /\ Attempt(2).outcome = "Success"
    /\ Len(Attempt(2).log) = 7

\* C14: fire-and-forget invalidation.  The invalidation of both query keys is
\* requested before the form reset and the navigation; the step that resets
\* and navigates leaves both invalidations still pending, so neither waited
\* for them; every requested invalidation eventually settles, whether or not
\* the view is still mounted; and its settling, done or failed, changes no
\* attempt, nor the form, nor the submitting flag.
InvalidationPending(key) == invalidation[key] = "pending"
InvalidationSettled(key) == invalidation[key] \in { "done", "failed" }

C14_InvalidationFireAndForget ==
    /\ [](\A i \in AttemptIds :
            LET log == Attempt(i).log IN
            /\ \A k \in Calls(log, "invalidateQueries") :
                  \A j \in Calls(log, "resetForm") \cup Calls(log, "navigate") :
                     k < j
            /\ Attempt(i).outcome = "Success" =>
                  \A key \in QueryKeys :
                     /\ \E k \in Calls(log, "invalidateQueries") :
                           log[k].arg = key
                     /\ invalidation[key] # "none")
    /\ [][\A i \in AttemptIds :
            (~Settled(attempts[i]) /\ attempts'[i].outcome = "Success") =>
               /\ \A key \in QueryKeys : invalidation'[key] = "pending"
               /\ Count(attempts'[i].log, "resetForm") = 1
               /\ Count(attempts'[i].log, "navigate") = 1
               /\ values' = initialValues
               /\ ~mounted']_vars
    /\ [][(\E key \in QueryKeys :
              InvalidationPending(key) /\ invalidation'[key] # "pending") =>
              /\ attempts' = attempts
              /\ values' = values
              /\ isSubmitting' = isSubmitting
              /\ mounted' = mounted]_vars
    /\ \A key \in QueryKeys :
          InvalidationPending(key) ~> InvalidationSettled(key)

C14_Witness ==
    \E i \in AttemptIds :
       /\ Attempt(i).outcome = "Success"
       /\ ~mounted
       /\ invalidation[<<"system", "state">>] = "failed"
       /\ InvalidationPending(<<"validator">>)

\* C15: termination.  Nothing the operator does aborts an attempt in flight:
\* a step that unmounts the view or starts another attempt leaves every
\* attempt in flight as it was.  A broadcasting attempt changes only by
\* settling, as Success exactly when signAndExecuteTransaction returned a
\* response and as Failure exactly when it threw, with the error caught and
\* shown.  With a signer and a network that answer, every attempt in flight
\* eventually settles as Success or Failure.
Broadcasting(a) == a.phase = "Broadcasting"

RequestOptions == { "showInput", "showEffects", "showEvents" }

ExpectedTransaction(a) ==
    IF a.unstake
    THEN [kind |-> "unstake", amount |-> 0, validator |-> NULL,
          stakedSuiId |-> stakeSuiIdParams]
    ELSE [kind |-> "stake", amount |-> a.amount, validator |-> validatorAddress,
          stakedSuiId |-> NULL]

C16_RequestContent ==
    /\ [](\A i \in AttemptIds :
            LET a == Attempt(i)
                log == a.log
            IN /\ Started(a) => a.unstake = unstake
               /\ Count(log, "createTransaction") <= 1
               /\ Count(log, "signAndExecuteTransaction") <= 1
               /\ \A k \in Calls(log, "createTransaction") :
                     /\ log[k].arg = ExpectedTransaction(a)
                     /\ log[k].arg.kind = IF unstake THEN "unstake" ELSE "stake"
                     /\ unstake => log[k].arg.stakedSuiId \in StakeIds
                     /\ ~unstake => log[k].arg.amount > 0
               /\ \A k \in Calls(log, "signAndExecuteTransaction") :
                     /\ log[k].arg.transaction = ExpectedTransaction(a)
                     /\ log[k].arg.options = RequestOptions)
    /\ [][nAttempts' = nAttempts + 1 =>
            LET b == attempts'[nAttempts + 1] IN
            IF unstake THEN b.amount = 0 /\ b.stakedSuiId = stakeSuiIdParams
            ELSE /\ b.amount = parseAmount(values.amount, coinDecimals)
                 /\ b.validator = validatorAddress
                 /\ values.amount = << "1" >> => b.amount = Unit
                 /\ values.amount = << "2" >> => b.amount = 2 * Unit
                 /\ values.amount = << "0", ".", "5" >> => 2 * b.amount = Unit]_vars

C16_Witness ==
    /\ ~unstake
    /\ Broadcasting(Attempt(1))
    /\ Attempt(1).amount = 2 * Unit
    /\ values.amount = << "1" >>
    /\ Count(Attempt(1).log, "signAndExecuteTransaction") = 1

\* C17: the gate of the button and the guard of the handler agree in unstake
\* mode.  While the form is rendered, a non-null delegationId means the
\* handler's guard does not return early, and a guard that would return early
\* means the submit button is disabled; so no unstake attempt ever ends in
\* the silent return: each one started reached the unstake mutation.
C17_GateMatchesGuard ==
    /\ (unstake /\ mounted) =>
          /\ delegationId # NULL => ~UnstakeGuardReturns
          /\ UnstakeGuardReturns => SubmitDisabled
          /\ ~SubmitDisabled =>
                /\ onHandleSubmit(values).outcome # "Returned"
                /\ onHandleSubmit(values).stakedSuiId = delegationId
    /\ \A i \in AttemptIds :
          (Started(Attempt(i)) /\ Attempt(i).unstake) =>
             /\ Attempt(i).outcome # "Returned"
             /\ Attempt(i).stakeData.status = "Active"

C17_Witness ==
    /\ unstake
    /\ mounted
    /\ isValid
    /\ ~isSubmitting
    /\ UnstakeGuardReturns
    /\ SubmitDisabled
    /\ Count(Attempt(1).log, "signAndExecuteTransaction") = 1

\* C18: a failed submission leaves the form as it was.  An attempt that ended
\* as Failure, or in the silent return, never called resetForm; the step in
\* which an attempt fails leaves the values of the form and the view alone,
\* so the amount after the failure is the amount before it; and a step of an
\* attempt changes the values only when the attempt succeeds, to the initial
\* values.
C18_FailureKeepsForm ==
    /\ [](\A i \in AttemptIds :
            /\ Attempt(i).outcome \in { "Failure", "Returned" } =>
                  Count(Attempt(i).log, "resetForm") = 0
            /\ Count(Attempt(i).log, "resetForm") > 0 =>
                  Attempt(i).outcome = "Success")
    /\ [][\A i \in AttemptIds :
            /\ (~Settled(attempts[i])
                   /\ attempts'[i].outcome \in { "Failure", "Returned" }) =>
                  /\ values' = values
                  /\ mounted' = mounted
            /\ (attempts'[i] # attempts[i] /\ values' # values) =>
                  /\ attempts'[i].outcome = "Success"
                  /\ values' = initialValues]_vars

C18_Witness ==
    /\ mounted
    /\ ~isSubmitting
    /\ Attempt(1).outcome = "Failure"
    /\ Count(Attempt(1).log, "signAndExecuteTransaction") = 1
    /\ values.amount = << "2" >>
    /\ Attempt(1).amount = 2 * Unit

====
